---------------------------- MODULE Spec2Model ----------------------------
(***************************************************************************)
(* A model of rulip's event-queue client: the QueueBuilder that            *)
(* accumulates a registration request, the registration POST, the          *)
(* Dispatcher's long-poll loop with heartbeat suppression and cursor       *)
(* advancement, and unregistration, over the Client's send.                *)
(*                                                                         *)
(* Every await of the code is a point where the model stops: an operation  *)
(* issues its request (pc = "..._await"), the transport delivers an        *)
(* outcome (Respond), and the operation resumes on it.                     *)
(*                                                                         *)
(* Option<T> is a sequence of length 0 (None) or 1 (Some).                 *)
(***************************************************************************)
EXTENDS Integers, Sequences, FiniteSets, TLC

VARIABLES
    client,      \* ClientInner: [base_uri, credentials]
    builder,     \* Option<RegisterQueueRequest>: the QueueBuilder's request
    queue,       \* Option<DispatcherParams>: the Queue's dispatcher params
    pc,          \* where the caller's task stands
    request,     \* the last request handed to the transport
    response,    \* the transport's outcome for it, NoResponse while awaited
    result,      \* what the last finished operation returned
    nreq,        \* requests issued by the current (or last) operation
    gets,        \* history: GETs issued since registration
    evtCalls,    \* history: the names given to for_event, in call order
    narrowCalls, \* history: the pairs given to narrow, in call order
    calls,       \* history: builder methods called so far
    registered,  \* history: the body of the successful registration response
    observed,    \* history: last id of the latest non-empty batch received
    seen,        \* history: ids of the non-heartbeat events received
    delivered,   \* history: ids of the events returned to the caller
    cb,          \* Option<ClientBuilder>: [uri, user, password, api_key]
    inner,       \* Option<ClientInner>: the local `inner` of init while it runs
    address,     \* history: the address given to Client::build
    answers,     \* what the code predicates answered on the returned error
    qs,          \* the Queues that share the Client, by handle: one record each
    hbs,         \* history: heartbeat-terminated batches received by the poll call
    lastCall     \* history: the last ClientBuilder method called, and its user

sessionVars == <<cb, inner, address, answers, qs, lastCall>>

queueVars == <<builder, queue, gets, evtCalls, narrowCalls, registered, observed,
               seen, delivered, qs, hbs>>

\* the variables of the single caller, which the Queues sharing a Client leave alone
soloVars == <<builder, queue, pc, request, response, result, nreq, gets,
              evtCalls, narrowCalls, calls, registered, observed, seen, delivered,
              cb, inner, address, answers, hbs, lastCall>>

vars == <<client, builder, queue, pc, request, response, result, nreq, gets,
          evtCalls, narrowCalls, calls, registered, observed, seen, delivered,
          cb, inner, address, answers, qs, hbs, lastCall>>

----------------------------------------------------------------------------
(* Bounds *)

MaxBuilderCalls == 3
MaxEventId == 2
MaxBatchLen == 2
MaxGets == 2
MaxSharedGets == 2

----------------------------------------------------------------------------
(* Option and sequence helpers *)

None == <<>>
Some(x) == <<x>>
IsSome(o) == Len(o) = 1
Unwrap(o) == o[1]

Range(s) == {s[i] : i \in 1..Len(s)}

SeqsUpTo(S, n) == UNION {[1..k -> S] : k \in 0..n}

IdsOfSeq(events) == {events[i].id : i \in 1..Len(events)}

----------------------------------------------------------------------------
(* Endpoints *)

FETCH_API_KEY == "fetch_api_key"
FETCH_DEV_API_KEY == "dev_fetch_api_key"
REGISTER_EVENT_QUEUE == "register"
EVENTS_QUEUE == "events"

----------------------------------------------------------------------------
(* The values the caller and the server draw from *)

EventNames == {"message", "reaction"}
Conditions == {"stream", "is"}
Operands == {"general", "public"}

QueueIds == {"abc", "xyz"}
EventIds == 0..MaxEventId
FirstEventIds == {-1, 0}

\* Event { id, kind, op }
EventValues == [id : EventIds, kind : {"heartbeat"}, op : {None}]
               \cup [id : EventIds, kind : {"reaction"}, op : {Some("add")}]

Batches == SeqsUpTo(EventValues, MaxBatchLen)

CredentialChoices == {None, Some([username |-> "bot@example.com", password |-> Some("key")])}

Users == {"iago@zulip.com", "bot@example.com"}
Passwords == {"secret"}
ApiKeys == {"key"}

Hosts == {"hello.zulipchat.com", "chat.example.org"}
Ports == {None, Some(8080)}
Paths == {<<>>, <<"diff", "path">>, <<"api", "v1", "">>}

\* addresses that parse, and two that do not: "invalid_uri" (no scheme) and
\* "mailto:bot" (no host)
Addresses ==
    [scheme : {Some("https")}, host : {Some(h) : h \in Hosts}, port : Ports, path : Paths]
    \cup {[scheme |-> None, host |-> None, port |-> None, path |-> <<"invalid_uri">>],
          [scheme |-> Some("mailto"), host |-> None, port |-> None, path |-> <<"bot">>]}

KnownCodes == {"BAD_REQUEST", "REQUEST_VARIABLE_MISSING", "USER_DEACTIVATED",
               "REALM_DEACTIVATED", "RATE_LIMIT_HIT", "AUTHENTICATION_FAILED"}

----------------------------------------------------------------------------
(* QueueBuilder: the accumulated RegisterQueueRequest *)

\* impl Default for ClientCapabilities
DefaultClientCapabilities ==
    [notification_settings_null |-> Some(TRUE),
     bulk_message_deletion |-> Some(TRUE),
     user_avatar_url_field_optional |-> Some(TRUE),
     stream_typing_notifications |-> Some(TRUE),
     user_settings_object |-> Some(TRUE)]

\* #[derive(Default)] struct RegisterQueueRequest
DefaultRegisterQueueRequest ==
    [apply_markdown |-> None,
     client_gravatar |-> None,
     slim_presence |-> None,
     event_types |-> None,
     all_public_streams |-> None,
     include_subscribers |-> None,
     narrow |-> None,
     client_capabilities |-> DefaultClientCapabilities]

\* QueueBuilder::new
QueueBuilderNew == Some(DefaultRegisterQueueRequest)

apply_markdown(req, value) == [req EXCEPT !.apply_markdown = Some(value)]
client_gravatar(req, value) == [req EXCEPT !.client_gravatar = Some(value)]
slim_presence(req, value) == [req EXCEPT !.slim_presence = Some(value)]
all_public_streams(req, value) == [req EXCEPT !.all_public_streams = Some(value)]
include_subscribers(req, value) == [req EXCEPT !.include_subscribers = Some(value)]

\* Option::get_or_insert(Vec::with_capacity(1))
get_or_insert(o) == IF IsSome(o) THEN Unwrap(o) ELSE <<>>

\* events.iter().find(|evt| evt == &&event)
FindEvent(events, event) == {i \in 1..Len(events) : events[i] = event}

\* events.iter().find(|[c, v]| c == &condition && v == &value)
FindNarrow_ConditionOnly(events, condition, value) ==
    {i \in 1..Len(events) : events[i][1] = condition}

FindNarrow(events, condition, value) ==
    {i \in 1..Len(events) : events[i][1] = condition /\ events[i][2] = value}

for_event_AlwaysPush(req, event) ==
    [req EXCEPT !.event_types = Some(Append(get_or_insert(req.event_types), event))]

for_event(req, event) ==
    LET events == get_or_insert(req.event_types)
    IN  IF FindEvent(events, event) = {}
        THEN [req EXCEPT !.event_types = Some(Append(events, event))]
        ELSE [req EXCEPT !.event_types = Some(events)]

narrow(req, condition, value) ==
    LET events == get_or_insert(req.narrow)
    IN  IF FindNarrow(events, condition, value) = {}
        THEN [req EXCEPT !.narrow = Some(Append(events, <<condition, value>>))]
        ELSE [req EXCEPT !.narrow = Some(events)]

----------------------------------------------------------------------------
(* Client: building and sending a request *)

NoRequest == [method |-> "NONE"]
NoResponse == [type |-> "none"]
NoResult == [op |-> "none", tag |-> "None"]

\* a request that carries its parameters as a form whatever the verb
send_request_AlwaysForm(c, method, endpoint, params) ==
    [method |-> method,
     url |-> <<c.base_uri, endpoint>>,
     query |-> None,
     form |-> Some(params),
     basic_auth |-> c.credentials]

\* a request that never carries basic authentication
send_request_NoAuth(c, method, endpoint, params) ==
    [method |-> method,
     url |-> <<c.base_uri, endpoint>>,
     query |-> IF method = "GET" THEN Some(params) ELSE None,
     form |-> IF method = "GET" THEN None ELSE Some(params),
     basic_auth |-> None]

\* ClientInner::send_request: the request handed to the transport
send_request(c, method, endpoint, params) ==
    [method |-> method,
     url |-> <<c.base_uri, endpoint>>,
     query |-> IF method = "GET" THEN Some(params) ELSE None,
     form |-> IF method = "GET" THEN None ELSE Some(params),
     basic_auth |-> c.credentials]

\* the parameters of a request, wherever it carries them
ParamsOf(req) == IF IsSome(req.query) THEN Unwrap(req.query) ELSE Unwrap(req.form)

\* a conversion that makes a transport error of every reqwest error
FromHttpError_AlwaysHttp(http_error) ==
    [kind |-> "Http", http |-> http_error, source |-> None]

\* impl From<HttpError> for Error
FromHttpError(http_error) ==
    IF http_error.is_builder
    THEN [kind |-> "Build", source |-> Some(http_error)]
    ELSE [kind |-> "Http", http |-> http_error, source |-> None]

\* Error::new_zulip
new_zulip(zulip_error) == [kind |-> "Zulip", zulip |-> zulip_error, source |-> None]

\* a Credentials decoder that drops the key of the response
CredentialsDeserialize_NoKey(body) == [username |-> body.email, password |-> None]

\* #[derive(Deserialize)] struct Credentials: email is read into username,
\* api_key into the optional password
CredentialsDeserialize(body) == [username |-> body.email, password |-> body.api_key]

\* response.json::<R>(): which bodies decode into the expected type
Decodes(body, type) ==
    CASE type = "RegisterQueueResponse" -> body.json = "queue"
      [] type = "Credentials" -> body.json = "auth"
      [] type = "EventsResponse" -> body.json = "events"
      [] type = "EmptyResponse" -> body.json # "malformed"
      [] type = "ZulipError" -> body.json = "error"

\* a ZulipErrorCode decoder that knows the unit variants only
ZulipErrorCodeDeserialize_UnitOnly(body) ==
    IF ~IsSome(body.code) THEN [tag |-> "Err"]
    ELSE CASE Unwrap(body.code) = "BAD_REQUEST" ->
                [tag |-> "Ok", data |-> [variant |-> "BadRequest"]]
           [] Unwrap(body.code) = "USER_DEACTIVATED" ->
                [tag |-> "Ok", data |-> [variant |-> "UserDeactivated"]]
           [] Unwrap(body.code) = "REALM_DEACTIVATED" ->
                [tag |-> "Ok", data |-> [variant |-> "RealmDeactivated"]]
           [] Unwrap(body.code) = "AUTHENTICATION_FAILED" ->
                [tag |-> "Ok", data |-> [variant |-> "AuthenticationFailed"]]
           [] OTHER -> [tag |-> "Err"]

\* #[serde(tag = "code")] enum ZulipErrorCode: the variant named by the tag,
\* with the field a struct variant requires; an error without tag, on an
\* unknown tag, or when the required field is missing
ZulipErrorCodeDeserialize(body) ==
    IF ~IsSome(body.code) THEN [tag |-> "Err"]
    ELSE CASE Unwrap(body.code) = "BAD_REQUEST" ->
                [tag |-> "Ok", data |-> [variant |-> "BadRequest"]]
           [] Unwrap(body.code) = "REQUEST_VARIABLE_MISSING" ->
                IF IsSome(body.var_name)
                THEN [tag |-> "Ok", data |-> [variant |-> "RequestVariableMissing",
                                              var_name |-> Unwrap(body.var_name)]]
                ELSE [tag |-> "Err"]
           [] Unwrap(body.code) = "USER_DEACTIVATED" ->
                [tag |-> "Ok", data |-> [variant |-> "UserDeactivated"]]
           [] Unwrap(body.code) = "REALM_DEACTIVATED" ->
                [tag |-> "Ok", data |-> [variant |-> "RealmDeactivated"]]
           [] Unwrap(body.code) = "RATE_LIMIT_HIT" ->
                IF IsSome(body.retry_after)
                THEN [tag |-> "Ok", data |-> [variant |-> "RateLimitHit",
                                              retry_after |-> Unwrap(body.retry_after)]]
                ELSE [tag |-> "Err"]
           [] Unwrap(body.code) = "AUTHENTICATION_FAILED" ->
                [tag |-> "Ok", data |-> [variant |-> "AuthenticationFailed"]]
           [] OTHER -> [tag |-> "Err"]

\* #[serde(flatten)] code: Option<ZulipErrorCode>: a flattened Option takes
\* the variant when it decodes and is None on any error
FlattenedCode(body) ==
    LET r == ZulipErrorCodeDeserialize(body)
    IN  IF r.tag = "Ok" THEN Some(r.data) ELSE None

\* #[derive(Deserialize)] struct ZulipError
ZulipErrorDeserialize(body) == [message |-> body.message, code |-> FlattenedCode(body)]

\* response.json::<R>(): the value a body decodes into
Decoded(body, type) ==
    CASE type = "ZulipError" -> ZulipErrorDeserialize(body)
      [] type = "Credentials" -> CredentialsDeserialize(body)
      [] OTHER -> body

\* ClientInner::deserialize: the decoded value, or a panic
deserialize(body, type) ==
    IF Decodes(body, type)
    THEN [tag |-> "Ok", data |-> Decoded(body, type)]
    ELSE [tag |-> "Panic"]

\* a rate-limit predicate that is true of every coded error
is_rate_limit_hit_AnyCode(e) == IsSome(e.code)

\* ZulipError::code and the predicates over it
code(e) == e.code
is_bad_request(e) == IsSome(e.code) /\ Unwrap(e.code).variant = "BadRequest"
is_rate_limit_hit(e) == IsSome(e.code) /\ Unwrap(e.code).variant = "RateLimitHit"
is_realm_deactivated(e) == IsSome(e.code) /\ Unwrap(e.code).variant = "RealmDeactivated"
is_user_deactivated(e) == IsSome(e.code) /\ Unwrap(e.code).variant = "UserDeactivated"
is_variable_missing(e) ==
    IsSome(e.code) /\ Unwrap(e.code).variant = "RequestVariableMissing"
is_auth_failed(e) == IsSome(e.code) /\ Unwrap(e.code).variant = "AuthenticationFailed"

\* Response::error_for_status on a 5xx response
error_for_status(resp) == [is_builder |-> FALSE, status |-> Some(resp.status)]

\* a send that takes the body of a 1xx or 3xx response as it takes a success
send_AnyStatusBelow400(resp, R) ==
    IF resp.type = "failure"
    THEN [tag |-> "Err", error |-> FromHttpError(resp.error)]
    ELSE IF resp.status = "4xx"
    THEN LET body == deserialize(resp.body, "ZulipError")
         IN  IF body.tag = "Panic" THEN body
             ELSE [tag |-> "Err", error |-> new_zulip(body.data)]
    ELSE IF resp.status = "5xx"
    THEN [tag |-> "Err", error |-> FromHttpError(error_for_status(resp))]
    ELSE deserialize(resp.body, R)

\* ClientInner::send on the transport's outcome `resp`, expecting type R
send(resp, R) ==
    IF resp.type = "failure"
    THEN [tag |-> "Err", error |-> FromHttpError(resp.error)]
    ELSE IF resp.status = "4xx"
    THEN LET body == deserialize(resp.body, "ZulipError")
         IN  IF body.tag = "Panic" THEN body
             ELSE [tag |-> "Err", error |-> new_zulip(body.data)]
    ELSE IF resp.status = "5xx"
    THEN [tag |-> "Err", error |-> FromHttpError(error_for_status(resp))]
    ELSE IF resp.status \in {"1xx", "3xx"}
    THEN [tag |-> "Panic"]
    ELSE deserialize(resp.body, R)

----------------------------------------------------------------------------
(* ClientBuilder: the address, the configured credentials, the handshake *)
(*                                                                       *)
(* An address is [scheme, host, port, path]: scheme, host and port are   *)
(* Options, path is the sequence of its segments. A Url has a scheme and *)
(* a host, and a path of at least one segment ("/" is <<"">>).           *)

\* Endpoint::BASE_API = "/api/v1/": a reference that starts at the root
BASE_API == [absolute |-> TRUE, segments |-> <<"api", "v1", "">>]

\* the error reqwest makes of an address that does not parse
UrlError == [is_builder |-> TRUE, status |-> None]

\* IntoUrl::into_url: Url::parse, mapped to a builder error
into_url(a) ==
    IF IsSome(a.scheme) /\ IsSome(a.host)
    THEN [tag |-> "Ok",
          url |-> [scheme |-> Unwrap(a.scheme), host |-> Unwrap(a.host),
                   port |-> a.port,
                   path |-> IF a.path = <<>> THEN <<"">> ELSE a.path]]
    ELSE [tag |-> "Err", error |-> UrlError]

\* a join that appends the reference to the path already there
join_Append(url, ref) == [url EXCEPT !.path = url.path \o ref.segments]

\* Url::join: a reference that starts at the root replaces the whole path,
\* any other replaces the last segment; scheme, host and port are the base's
join(url, ref) ==
    IF ref.absolute
    THEN [url EXCEPT !.path = ref.segments]
    ELSE [url EXCEPT !.path = SubSeq(url.path, 1, Len(url.path) - 1) \o ref.segments]

\* ClientBuilder::new
ClientBuilderNew(uri) == [uri |-> uri, user |-> None, password |-> None, api_key |-> None]

\* ClientBuilder::with_credentials
with_credentials_KeepUser(b, user, password) ==
    [b EXCEPT !.password = password,
              !.user = IF IsSome(b.user) THEN b.user ELSE Some(user)]

with_credentials(b, user, password) ==
    [b EXCEPT !.password = password, !.user = Some(user)]

\* ClientBuilder::with_key
with_key(b, user, key) == [b EXCEPT !.api_key = Some(key), !.user = Some(user)]

\* ClientInner::new
ClientInnerNew(base_uri) == [base_uri |-> base_uri, credentials |-> None]

\* ClientInner::set_credentials
set_credentials(i, credentials) == [i EXCEPT !.credentials = Some(credentials)]

\* Credentials::new
CredentialsNew(username, password) ==
    [username |-> username, password |-> Some(password)]

\* Credentials::unauthenticated
unauthenticated(username) == [username |-> username, password |-> None]

----------------------------------------------------------------------------
(* Queue and Dispatcher *)

\* a Queue that starts from the cursor of a fresh queue, whatever the response
QueueNew_FreshCursor(resp) == [queue_id |-> resp.queue_id, last_event_id |-> -1]

\* Queue::new: the dispatcher params taken from the registration response
QueueNew(resp) == [queue_id |-> resp.queue_id, last_event_id |-> resp.last_event_id]

\* Queue::id and Queue::last_event_id
QueueId(q) == q.queue_id
QueueLastEventId(q) == q.last_event_id

\* QueueBuilder::register: the registration request
register(c, req) == send_request(c, "POST", REGISTER_EVENT_QUEUE, req)

\* a GET that carries the queue_id alone
fetch_events_QueueIdOnly(c, params) ==
    send_request(c, "GET", EVENTS_QUEUE, [queue_id |-> params.queue_id])

\* Dispatcher::fetch_events
fetch_events(c, params) == send_request(c, "GET", EVENTS_QUEUE, params)

\* an unregister request that carries the dispatcher params whole
UnregisterQueueRequestFrom_WholeParams(params) == params

\* impl From<&DispatcherParams> for UnregisterQueueRequest
UnregisterQueueRequestFrom(params) == [queue_id |-> params.queue_id]

\* Dispatcher::unregister
unregister(c, params) ==
    send_request(c, "DELETE", EVENTS_QUEUE, UnregisterQueueRequestFrom(params))

\* events.iter().last()
LastEvent(events) == IF events = <<>> THEN None ELSE Some(events[Len(events)])

MaxIdOf(events) ==
    CHOOSE m \in IdsOfSeq(events) : \A i \in IdsOfSeq(events) : i <= m

\* a cursor advanced to the greatest id of the batch
AdvanceCursor_MaxId(params, events) ==
    IF events # <<>>
    THEN [params EXCEPT !.last_event_id = MaxIdOf(events)]
    ELSE params

\* a cursor advanced to the id of the first event of the batch
AdvanceCursor_FirstId(params, events) ==
    IF events # <<>>
    THEN [params EXCEPT !.last_event_id = events[1].id]
    ELSE params

\* a cursor advanced only by a batch that is returned to the caller
AdvanceCursor_UnlessHeartbeat(params, events) ==
    IF events # <<>> /\ events[Len(events)].kind # "heartbeat"
    THEN [params EXCEPT !.last_event_id = events[Len(events)].id]
    ELSE params

\* a cursor that an empty batch sends back to the start
AdvanceCursor_ResetOnEmpty(params, events) ==
    IF events # <<>>
    THEN [params EXCEPT !.last_event_id = events[Len(events)].id]
    ELSE [params EXCEPT !.last_event_id = -1]

\* Dispatcher::events, the loop body on a fetched batch: the cursor it leaves
AdvanceCursor(params, events) ==
    IF IsSome(LastEvent(events))
    THEN [params EXCEPT !.last_event_id = Unwrap(LastEvent(events)).id]
    ELSE params

\* suppression decided by the first event of the batch
Continues_FirstEvent(events) ==
    events # <<>> /\ events[1].kind = "heartbeat"

\* a loop that goes on until a batch brings an event that is not a heartbeat
Continues_UntilContent(events) ==
    events = <<>> \/ events[Len(events)].kind = "heartbeat"

\* a loop that goes on after a batch that holds a heartbeat anywhere
Continues_AnyHeartbeat(events) ==
    \E i \in 1..Len(events) : events[i].kind = "heartbeat"

\* a loop that goes on after every non-empty batch
Continues_NonEmpty(events) == events # <<>>

\* Dispatcher::events, the loop body on a fetched batch: `continue` or not
Continues(events) ==
    IsSome(LastEvent(events)) /\ Unwrap(LastEvent(events)).kind = "heartbeat"

\* a result with the heartbeat events filtered out
BreakOk_NoHeartbeats(events) ==
    [op |-> "events", tag |-> "Ok",
     value |-> SelectSeq(events, LAMBDA e : e.kind # "heartbeat")]

\* Dispatcher::events: break Ok(events)
BreakOk(events) == [op |-> "events", tag |-> "Ok", value |-> events]

----------------------------------------------------------------------------
(* Queues that share a Client: each Queue owns its Dispatcher *)

\* a dispatcher state that lives in one place for all the Queues of a Client
StoreDispatcher_InSession(all, h, q) ==
    [k \in DOMAIN all |-> IF k = h THEN q ELSE [all[k] EXCEPT !.params = q.params]]

\* Queue { dispatcher: Dispatcher { client, params } }: what an operation on
\* the Queue of handle h writes is that Queue's own record
StoreDispatcher(all, h, q) == [all EXCEPT ![h] = q]

----------------------------------------------------------------------------
(* The transport and the server: the outcomes a request can have *)

Failures == {[type |-> "failure", error |-> [is_builder |-> b, status |-> None]] :
                b \in BOOLEAN}

Malformed == [json |-> "malformed"]

ErrorBodies == {[json |-> "error", message |-> "Bad request", code |-> c,
                 var_name |-> None, retry_after |-> None] :
                   c \in {None, Some("BAD_REQUEST")}}

HeartbeatTerminated(events) ==
    events # <<>> /\ events[Len(events)].kind = "heartbeat"

\* the bodies a 2xx response to `req` can carry
SuccessBodies(req) ==
    CASE req.method = "POST" ->
           {[json |-> "queue", queue_id |-> q, last_event_id |-> i] :
               q \in QueueIds, i \in FirstEventIds}
      [] req.method = "GET" ->
           {[json |-> "events", events |-> b] :
               b \in {x \in Batches : HeartbeatTerminated(x) => gets < MaxGets}}
      [] req.method = "DELETE" -> {[json |-> "object"]}

\* error bodies with every known code tag, an unknown one and none, each with
\* and without the fields var_name and retry_after
AllErrorBodies ==
    [json : {"error"}, message : {"Bad request"},
     code : {None} \cup {Some(t) : t \in KnownCodes \cup {"UNKNOWN_CODE"}},
     var_name : {None, Some("queue_id")},
     retry_after : {None, Some(1)}]

AuthBodies == [json : {"auth"}, email : Users, api_key : {None} \cup {Some(k) : k \in ApiKeys}]

IsHandshake(req) == req.url[2] \in {FETCH_API_KEY, FETCH_DEV_API_KEY}

\* the outcomes of the handshake request of init
HandshakeOutcomes ==
    Failures
    \cup {[type |-> "http", status |-> st, body |-> Malformed] :
             st \in {"1xx", "2xx", "3xx", "4xx", "5xx"}}
    \cup {[type |-> "http", status |-> "4xx", body |-> b] : b \in AllErrorBodies}
    \cup {[type |-> "http", status |-> "5xx", body |-> b] : b \in ErrorBodies}
    \cup {[type |-> "http", status |-> "2xx", body |-> b] : b \in AuthBodies}

\* a body of the expected shape, as a 1xx or 3xx response may carry it too
ExpectedBody(req) ==
    CASE req.method = "POST" ->
           [json |-> "queue", queue_id |-> "abc", last_event_id |-> 0]
      [] req.method = "GET" ->
           [json |-> "events",
            events |-> <<[id |-> MaxEventId, kind |-> "reaction", op |-> Some("add")]>>]
      [] req.method = "DELETE" -> [json |-> "object"]

Outcomes(req) ==
    IF IsHandshake(req)
    THEN HandshakeOutcomes
    ELSE Failures
         \cup {[type |-> "http", status |-> st, body |-> ExpectedBody(req)] :
                  st \in {"1xx", "3xx"}}
         \cup {[type |-> "http", status |-> st, body |-> Malformed] :
                  st \in {"1xx", "2xx", "3xx", "4xx", "5xx"}}
         \cup {[type |-> "http", status |-> "4xx", body |-> b] : b \in ErrorBodies}
         \cup {[type |-> "http", status |-> "2xx", body |-> b] : b \in SuccessBodies(req)}

ContentIdsOf(events) ==
    {events[i].id : i \in {j \in 1..Len(events) : events[j].kind # "heartbeat"}}

----------------------------------------------------------------------------
(* Initial state: a Client already initialised, and client.queue() *)

Init ==
    /\ client \in {[base_uri |-> "https://example.com/api/v1/", credentials |-> c] :
                      c \in CredentialChoices}
    /\ builder = QueueBuilderNew
    /\ queue = None
    /\ pc = "building"
    /\ request = NoRequest
    /\ response = NoResponse
    /\ result = NoResult
    /\ nreq = 0
    /\ gets = 0
    /\ evtCalls = <<>>
    /\ narrowCalls = <<>>
    /\ calls = 0
    /\ registered = None
    /\ observed = None
    /\ seen = {}
    /\ delivered = {}
    /\ cb = None
    /\ inner = None
    /\ address = None
    /\ answers = None
    /\ qs = <<>>
    /\ hbs = 0
    /\ lastCall = None

----------------------------------------------------------------------------
(* QueueBuilder operations *)

BuilderStep(req) ==
    /\ builder' = Some(req)
    /\ calls' = calls + 1
    /\ UNCHANGED <<sessionVars, hbs>>
    /\ UNCHANGED <<client, queue, pc, request, response, result, nreq, gets,
                   registered, observed, seen, delivered>>

CanBuild == pc = "building" /\ calls < MaxBuilderCalls

ApplyMarkdown ==
    /\ CanBuild
    /\ \E value \in BOOLEAN : BuilderStep(apply_markdown(Unwrap(builder), value))
    /\ UNCHANGED <<evtCalls, narrowCalls>>

ClientGravatar ==
    /\ CanBuild
    /\ \E value \in BOOLEAN : BuilderStep(client_gravatar(Unwrap(builder), value))
    /\ UNCHANGED <<evtCalls, narrowCalls>>

SlimPresence ==
    /\ CanBuild
    /\ \E value \in BOOLEAN : BuilderStep(slim_presence(Unwrap(builder), value))
    /\ UNCHANGED <<evtCalls, narrowCalls>>

AllPublicStreams ==
    /\ CanBuild
    /\ \E value \in BOOLEAN : BuilderStep(all_public_streams(Unwrap(builder), value))
    /\ UNCHANGED <<evtCalls, narrowCalls>>

IncludeSubscribers ==
    /\ CanBuild
    /\ \E value \in BOOLEAN : BuilderStep(include_subscribers(Unwrap(builder), value))
    /\ UNCHANGED <<evtCalls, narrowCalls>>

ForEvent ==
    /\ CanBuild
    /\ \E event \in EventNames :
          /\ BuilderStep(for_event(Unwrap(builder), event))
          /\ evtCalls' = Append(evtCalls, event)
    /\ UNCHANGED narrowCalls

Narrow ==
    /\ CanBuild
    /\ \E condition \in Conditions, value \in Operands :
          /\ BuilderStep(narrow(Unwrap(builder), condition, value))
          /\ narrowCalls' = Append(narrowCalls, <<condition, value>>)
    /\ UNCHANGED evtCalls

----------------------------------------------------------------------------
(* The transport delivers the outcome of the request that is awaited *)

Awaiting ==
    pc \in {"register_await", "events_await", "unregister_await", "init_await"}

Respond ==
    /\ Awaiting
    /\ response = NoResponse
    /\ response' \in Outcomes(request)
    /\ UNCHANGED <<sessionVars, hbs>>
    /\ UNCHANGED <<client, builder, queue, pc, request, result, nreq, gets,
                   evtCalls, narrowCalls, calls, registered, observed, seen, delivered>>

----------------------------------------------------------------------------
(* QueueBuilder::register *)

Register ==
    /\ pc = "building"
    /\ request' = register(client, Unwrap(builder))
    /\ response' = NoResponse
    /\ result' = NoResult
    /\ nreq' = 1
    /\ pc' = "register_await"
    /\ UNCHANGED <<sessionVars, hbs>>
    /\ UNCHANGED <<client, builder, queue, gets, evtCalls, narrowCalls, calls,
                   registered, observed, seen, delivered>>

\* register resumes: `?` on the result of send, then Queue::new
RegisterReturn ==
    /\ pc = "register_await"
    /\ response # NoResponse
    /\ LET r == send(response, "RegisterQueueResponse")
       IN  CASE r.tag = "Ok" ->
                  /\ queue' = Some(QueueNew(r.data))
                  /\ registered' = Some(response.body)
                  /\ observed' = Some(response.body.last_event_id)
                  /\ result' = [op |-> "register", tag |-> "Ok"]
                  /\ pc' = "active"
             [] r.tag = "Err" ->
                  /\ result' = [op |-> "register", tag |-> "Err", error |-> r.error]
                  /\ pc' = "failed"
                  /\ UNCHANGED <<queue, registered, observed>>
             [] r.tag = "Panic" ->
                  /\ result' = NoResult
                  /\ pc' = "panicked"
                  /\ UNCHANGED <<queue, registered, observed>>
    /\ builder' = None
    /\ evtCalls' = <<>>
    /\ narrowCalls' = <<>>
    /\ calls' = 0
    /\ UNCHANGED <<sessionVars, hbs>>
    /\ UNCHANGED <<client, request, response, nreq, gets, seen, delivered>>

----------------------------------------------------------------------------
(* Queue::events (poll) *)

Events ==
    /\ pc = "active"
    /\ gets < MaxGets
    /\ request' = fetch_events(client, Unwrap(queue))
    /\ response' = NoResponse
    /\ result' = NoResult
    /\ nreq' = 1
    /\ gets' = gets + 1
    /\ hbs' = 0
    /\ pc' = "events_await"
    /\ UNCHANGED sessionVars
    /\ UNCHANGED <<client, builder, queue, evtCalls, narrowCalls, calls,
                   registered, observed, seen, delivered>>

\* Dispatcher::events resumes on the outcome of fetch_events: one pass of the
\* loop body, up to the next await or the return
EventsResume ==
    /\ pc = "events_await"
    /\ response # NoResponse
    /\ LET r == send(response, "EventsResponse")
       IN  CASE r.tag = "Ok" ->
                  LET events == r.data.events
                      params == AdvanceCursor(Unwrap(queue), events)
                      received == response.body.events  \* for the history
                  IN  /\ queue' = Some(params)
                      /\ observed' = IF received # <<>>
                                     THEN Some(received[Len(received)].id)
                                     ELSE observed
                      /\ seen' = seen \cup ContentIdsOf(received)
                      /\ hbs' = IF HeartbeatTerminated(received) THEN hbs + 1 ELSE hbs
                      /\ IF Continues(events)
                         THEN /\ request' = fetch_events(client, params)
                              /\ response' = NoResponse
                              /\ nreq' = nreq + 1
                              /\ gets' = gets + 1
                              /\ UNCHANGED <<pc, result, delivered>>
                         ELSE /\ result' = BreakOk(events)
                              /\ delivered' = delivered \cup ContentIdsOf(result'.value)
                              /\ pc' = "active"
                              /\ UNCHANGED <<request, response, nreq, gets>>
             [] r.tag = "Err" ->
                  /\ result' = [op |-> "events", tag |-> "Err", error |-> r.error]
                  /\ pc' = "active"
                  /\ UNCHANGED <<queue, request, response, nreq, gets,
                                 observed, seen, delivered, hbs>>
             [] r.tag = "Panic" ->
                  /\ result' = NoResult
                  /\ pc' = "panicked"
                  /\ UNCHANGED <<queue, request, response, nreq, gets,
                                 observed, seen, delivered, hbs>>
    /\ UNCHANGED sessionVars
    /\ UNCHANGED <<client, builder, evtCalls, narrowCalls, calls, registered>>

----------------------------------------------------------------------------
(* Queue::unregister: takes the Queue by value *)

Unregister ==
    /\ pc = "active"
    /\ request' = unregister(client, Unwrap(queue))
    /\ response' = NoResponse
    /\ result' = NoResult
    /\ nreq' = 1
    /\ pc' = "unregister_await"
    /\ UNCHANGED <<sessionVars, hbs>>
    /\ UNCHANGED <<client, builder, queue, gets, evtCalls, narrowCalls, calls,
                   registered, observed, seen, delivered>>

UnregisterReturn ==
    /\ pc = "unregister_await"
    /\ response # NoResponse
    /\ LET r == send(response, "EmptyResponse")
       IN  CASE r.tag = "Ok" ->
                  /\ result' = [op |-> "unregister", tag |-> "Ok"]
                  /\ pc' = "dropped"
             [] r.tag = "Err" ->
                  /\ result' = [op |-> "unregister", tag |-> "Err", error |-> r.error]
                  /\ pc' = "dropped"
             [] r.tag = "Panic" ->
                  /\ result' = NoResult
                  /\ pc' = "panicked"
    /\ queue' = None
    /\ UNCHANGED <<sessionVars, hbs>>
    /\ UNCHANGED <<client, builder, request, response, nreq, gets, evtCalls,
                   narrowCalls, calls, registered, observed, seen, delivered>>

----------------------------------------------------------------------------

BuilderNext ==
    \/ ApplyMarkdown
    \/ ClientGravatar
    \/ SlimPresence
    \/ AllPublicStreams
    \/ IncludeSubscribers
    \/ ForEvent
    \/ Narrow

QueueNext ==
    \/ Register
    \/ RegisterReturn
    \/ Events
    \/ EventsResume
    \/ Unregister
    \/ UnregisterReturn
    \/ Respond

Next == BuilderNext \/ QueueNext

Spec == Init /\ [][Next]_vars

----------------------------------------------------------------------------
(* Client::build, ClientBuilder and init *)

NoClient == [base_uri |-> None, credentials |-> None]

\* Client::build(address): a ClientBuilder over the parsed address
InitSession ==
    /\ address \in {Some(a) : a \in Addresses}
    /\ cb = Some(ClientBuilderNew(into_url(Unwrap(address))))
    /\ client = NoClient
    /\ inner = None
    /\ answers = None
    /\ qs = <<>>
    /\ hbs = 0
    /\ lastCall = None
    /\ builder = None
    /\ queue = None
    /\ pc = "configuring"
    /\ request = NoRequest
    /\ response = NoResponse
    /\ result = NoResult
    /\ nreq = 0
    /\ gets = 0
    /\ evtCalls = <<>>
    /\ narrowCalls = <<>>
    /\ calls = 0
    /\ registered = None
    /\ observed = None
    /\ seen = {}
    /\ delivered = {}

ConfigStep(b) ==
    /\ pc = "configuring"
    /\ calls < MaxBuilderCalls
    /\ cb' = Some(b)
    /\ calls' = calls + 1
    /\ UNCHANGED <<client, inner, address, answers, pc, request, response, result, nreq>>
    /\ UNCHANGED queueVars

\* the latest with_key call made on the builder so far, for the history
\* lastCall of the latest call of with_credentials or with_key
KeyCall == IF IsSome(lastCall) THEN Unwrap(lastCall).key ELSE None

WithCredentials ==
    \E user \in Users, password \in {None} \cup {Some(p) : p \in Passwords} :
        /\ ConfigStep(with_credentials(Unwrap(cb), user, password))
        /\ lastCall' = Some([fn |-> "with_credentials", user |-> user,
                              password |-> password, key |-> KeyCall])

WithKey ==
    \E user \in Users, key \in ApiKeys :
        /\ ConfigStep(with_key(Unwrap(cb), user, key))
        /\ lastCall' = Some([fn |-> "with_key", user |-> user, password |-> None,
                              key |-> Some([user |-> user, key |-> key])])

\* ClientBuilder::init up to its first await, or to its end when it has none
ClientInit ==
    /\ pc = "configuring"
    /\ LET b == Unwrap(cb)
       IN  IF b.uri.tag = "Err"
           THEN /\ result' = [op |-> "init", tag |-> "Err",
                              error |-> FromHttpError(b.uri.error)]
                /\ pc' = "init_failed"
                /\ UNCHANGED <<client, inner, request, nreq>>
           ELSE LET i == ClientInnerNew(join(b.uri.url, BASE_API))
                IN  IF IsSome(b.api_key)
                    THEN /\ client' = set_credentials(
                                         i, CredentialsNew(Unwrap(b.user), Unwrap(b.api_key)))
                         /\ result' = [op |-> "init", tag |-> "Ok"]
                         /\ pc' = "ready"
                         /\ UNCHANGED <<inner, request, nreq>>
                    ELSE IF IsSome(b.password)
                    THEN /\ request' = send_request(
                                          i, "POST", FETCH_API_KEY,
                                          CredentialsNew(Unwrap(b.user), Unwrap(b.password)))
                         /\ nreq' = 1
                         /\ inner' = Some(i)
                         /\ result' = NoResult
                         /\ pc' = "init_await"
                         /\ UNCHANGED client
                    ELSE IF IsSome(b.user)
                    THEN /\ request' = send_request(
                                          i, "POST", FETCH_DEV_API_KEY,
                                          unauthenticated(Unwrap(b.user)))
                         /\ nreq' = 1
                         /\ inner' = Some(i)
                         /\ result' = NoResult
                         /\ pc' = "init_await"
                         /\ UNCHANGED client
                    ELSE /\ client' = i
                         /\ result' = [op |-> "init", tag |-> "Ok"]
                         /\ pc' = "ready"
                         /\ UNCHANGED <<inner, request, nreq>>
    /\ cb' = None
    /\ response' = NoResponse
    /\ UNCHANGED <<address, answers, calls, lastCall>>
    /\ UNCHANGED queueVars

\* init resumes: `?` on the result of send, set_credentials, Client::new
InitReturn ==
    /\ pc = "init_await"
    /\ response # NoResponse
    /\ LET r == send(response, "Credentials")
       IN  CASE r.tag = "Ok" ->
                  /\ client' = set_credentials(Unwrap(inner), r.data)
                  /\ result' = [op |-> "init", tag |-> "Ok"]
                  /\ pc' = "ready"
             [] r.tag = "Err" ->
                  /\ result' = [op |-> "init", tag |-> "Err", error |-> r.error]
                  /\ pc' = "init_failed"
                  /\ UNCHANGED client
             [] r.tag = "Panic" ->
                  /\ result' = NoResult
                  /\ pc' = "panicked"
                  /\ UNCHANGED client
    /\ inner' = None
    /\ UNCHANGED <<cb, address, answers, request, response, nreq, calls, lastCall>>
    /\ UNCHANGED queueVars

\* the caller asks every code predicate of the application error init returned
Inspect ==
    /\ pc = "init_failed"
    /\ result.error.kind = "Zulip"
    /\ answers = None
    /\ answers' = Some([is_bad_request |-> is_bad_request(result.error.zulip),
                        is_rate_limit_hit |-> is_rate_limit_hit(result.error.zulip),
                        is_realm_deactivated |-> is_realm_deactivated(result.error.zulip),
                        is_user_deactivated |-> is_user_deactivated(result.error.zulip),
                        is_variable_missing |-> is_variable_missing(result.error.zulip),
                        is_auth_failed |-> is_auth_failed(result.error.zulip)])
    /\ UNCHANGED <<client, cb, inner, address, pc, request, response, result, nreq, calls,
                   lastCall>>
    /\ UNCHANGED queueVars

SessionNext ==
    \/ WithCredentials
    \/ WithKey
    \/ ClientInit
    \/ Respond
    \/ InitReturn
    \/ Inspect

SpecInit == InitSession /\ [][SessionNext]_vars

----------------------------------------------------------------------------
(* The queue operations on the default registration request, with the    *)
(* task that awaits a response resumed once the response has arrived:    *)
(* the executor polls a future that was woken.                           *)

SpecLive == Init /\ [][QueueNext]_vars /\ WF_vars(EventsResume)

----------------------------------------------------------------------------
(* Two Queues made from one Client, their operations interleaved: each   *)
(* await of one Queue is a point where the other may run. A Queue is     *)
(* [pc, params, request, response, result, gets] with two histories:     *)
(* regd, the body of its registration response, and obs, the last id of  *)
(* the latest non-empty batch it received; got is what its accessors     *)
(* returned last.                                                        *)

Handles == {1, 2}

SharedEventValues ==
    [id : {0, 1}, kind : {"heartbeat"}, op : {None}]
    \cup [id : {0, 1}, kind : {"reaction"}, op : {Some("add")}]

\* the outcomes of the request of one of the Queues: well-formed responses,
\* batches of at most one event
SharedOutcomes(q) ==
    {[type |-> "failure", error |-> [is_builder |-> FALSE, status |-> None]]}
    \cup {[type |-> "http", status |-> "4xx", body |-> b] : b \in ErrorBodies}
    \cup {[type |-> "http", status |-> "2xx", body |-> b] :
             b \in CASE q.request.method = "POST" ->
                         {[json |-> "queue", queue_id |-> i, last_event_id |-> -1] :
                             i \in QueueIds}
                    [] q.request.method = "GET" ->
                         {[json |-> "events", events |-> e] :
                             e \in {x \in SeqsUpTo(SharedEventValues, 1) :
                                      HeartbeatTerminated(x) => q.gets < MaxSharedGets}}
                    [] q.request.method = "DELETE" -> {[json |-> "object"]}}

\* client.queue() called twice: two builders over clones of the one Client
NewQueue ==
    [pc |-> "building", params |-> None, request |-> NoRequest,
     response |-> NoResponse, result |-> NoResult, gets |-> 0,
     regd |-> None, obs |-> None, got |-> None]

InitShared ==
    /\ client \in {[base_uri |-> "https://example.com/api/v1/", credentials |-> c] :
                      c \in CredentialChoices}
    /\ qs = [h \in Handles |-> NewQueue]
    /\ builder = None
    /\ queue = None
    /\ pc = "shared"
    /\ request = NoRequest
    /\ response = NoResponse
    /\ result = NoResult
    /\ nreq = 0
    /\ gets = 0
    /\ evtCalls = <<>>
    /\ narrowCalls = <<>>
    /\ calls = 0
    /\ registered = None
    /\ observed = None
    /\ seen = {}
    /\ delivered = {}
    /\ cb = None
    /\ inner = None
    /\ address = None
    /\ answers = None
    /\ hbs = 0
    /\ lastCall = None

\* a step of the Queue of handle h to the record q: the Client and the
\* single caller's variables are not written
QueueStep(h, q) ==
    /\ qs' = StoreDispatcher(qs, h, q)
    /\ UNCHANGED client
    /\ UNCHANGED soloVars

SharedRegister ==
    \E h \in DOMAIN qs :
        /\ qs[h].pc = "building"
        /\ QueueStep(h, [qs[h] EXCEPT
                            !.request = register(client, DefaultRegisterQueueRequest),
                            !.response = NoResponse,
                            !.pc = "register_await"])

SharedRespond ==
    \E h \in DOMAIN qs :
        /\ qs[h].pc \in {"register_await", "events_await", "unregister_await"}
        /\ qs[h].response = NoResponse
        /\ \E o \in SharedOutcomes(qs[h]) :
              QueueStep(h, [qs[h] EXCEPT !.response = o])

SharedRegisterReturn ==
    \E h \in DOMAIN qs :
        /\ qs[h].pc = "register_await"
        /\ qs[h].response # NoResponse
        /\ LET r == send(qs[h].response, "RegisterQueueResponse")
           IN  QueueStep(h,
                 CASE r.tag = "Ok" ->
                        [qs[h] EXCEPT
                           !.params = Some(QueueNew(r.data)),
                           !.regd = Some(qs[h].response.body),
                           !.obs = Some(qs[h].response.body.last_event_id),
                           !.result = [op |-> "register", tag |-> "Ok"],
                           !.pc = "active"]
                   [] r.tag = "Err" ->
                        [qs[h] EXCEPT
                           !.result = [op |-> "register", tag |-> "Err", error |-> r.error],
                           !.pc = "failed"]
                   [] r.tag = "Panic" ->
                        [qs[h] EXCEPT !.result = NoResult, !.pc = "panicked"])

SharedEvents ==
    \E h \in DOMAIN qs :
        /\ qs[h].pc = "active"
        /\ qs[h].gets < MaxSharedGets
        /\ QueueStep(h, [qs[h] EXCEPT
                            !.request = fetch_events(client, Unwrap(qs[h].params)),
                            !.response = NoResponse,
                            !.result = NoResult,
                            !.got = None,
                            !.gets = @ + 1,
                            !.pc = "events_await"])

SharedEventsResume ==
    \E h \in DOMAIN qs :
        /\ qs[h].pc = "events_await"
        /\ qs[h].response # NoResponse
        /\ LET r == send(qs[h].response, "EventsResponse")
           IN  QueueStep(h,
                 CASE r.tag = "Ok" ->
                        LET events == r.data.events
                            params == AdvanceCursor(Unwrap(qs[h].params), events)
                            received == qs[h].response.body.events  \* for the history
                            q == [qs[h] EXCEPT
                                    !.params = Some(params),
                                    !.obs = IF received # <<>>
                                            THEN Some(received[Len(received)].id)
                                            ELSE @]
                        IN  IF Continues(events)
                            THEN [q EXCEPT
                                    !.request = fetch_events(client, params),
                                    !.response = NoResponse,
                                    !.gets = @ + 1]
                            ELSE [q EXCEPT !.result = BreakOk(events), !.pc = "active"]
                   [] r.tag = "Err" ->
                        [qs[h] EXCEPT
                           !.result = [op |-> "events", tag |-> "Err", error |-> r.error],
                           !.pc = "active"]
                   [] r.tag = "Panic" ->
                        [qs[h] EXCEPT !.result = NoResult, !.pc = "panicked"])

\* the caller reads id() and last_event_id() of a Queue between two calls;
\* `got` holds what they returned until the next call on that Queue
SharedAccessors ==
    \E h \in DOMAIN qs :
        /\ qs[h].pc = "active"
        /\ qs[h].got = None
        /\ QueueStep(h, [qs[h] EXCEPT
                            !.got = Some([id |-> QueueId(Unwrap(qs[h].params)),
                                          last_event_id |->
                                              QueueLastEventId(Unwrap(qs[h].params))])])

SharedUnregister ==
    \E h \in DOMAIN qs :
        /\ qs[h].pc = "active"
        /\ QueueStep(h, [qs[h] EXCEPT
                            !.request = unregister(client, Unwrap(qs[h].params)),
                            !.response = NoResponse,
                            !.result = NoResult,
                            !.got = None,
                            !.pc = "unregister_await"])

SharedUnregisterReturn ==
    \E h \in DOMAIN qs :
        /\ qs[h].pc = "unregister_await"
        /\ qs[h].response # NoResponse
        /\ LET r == send(qs[h].response, "EmptyResponse")
           IN  QueueStep(h,
                 CASE r.tag = "Ok" ->
                        [qs[h] EXCEPT
                           !.result = [op |-> "unregister", tag |-> "Ok"],
                           !.params = None,
                           !.pc = "dropped"]
                   [] r.tag = "Err" ->
                        [qs[h] EXCEPT
                           !.result = [op |-> "unregister", tag |-> "Err",
                                       error |-> r.error],
                           !.params = None,
                           !.pc = "dropped"]
                   [] r.tag = "Panic" ->
                        [qs[h] EXCEPT !.result = NoResult, !.params = None,
                                      !.pc = "panicked"])

SharedNext ==
    \/ SharedRegister
    \/ SharedRespond
    \/ SharedRegisterReturn
    \/ SharedEvents
    \/ SharedEventsResume
    \/ SharedAccessors
    \/ SharedUnregister
    \/ SharedUnregisterReturn

SpecShared == InitShared /\ [][SharedNext]_vars

----------------------------------------------------------------------------
(* A whole session: the Client that init returned makes a Queue, which   *)
(* registers, polls and unregisters through it.                          *)

\* client.queue(): a builder over a clone of the Client
ClientQueue ==
    /\ pc = "ready"
    /\ qs = <<>>
    /\ qs' = <<NewQueue>>
    /\ UNCHANGED client
    /\ UNCHANGED soloVars

SessionQueueNext ==
    \/ SessionNext
    \/ ClientQueue
    \/ SharedNext

SpecSession == InitSession /\ [][SessionQueueNext]_vars

----------------------------------------------------------------------------
(* Shorthands for the claims *)

Cursor == Unwrap(queue).last_event_id

\* the tag a decoded code was made from
CodeTag(c) ==
    IF c = None THEN None
    ELSE Some(CASE Unwrap(c).variant = "BadRequest" -> "BAD_REQUEST"
                [] Unwrap(c).variant = "RequestVariableMissing" -> "REQUEST_VARIABLE_MISSING"
                [] Unwrap(c).variant = "UserDeactivated" -> "USER_DEACTIVATED"
                [] Unwrap(c).variant = "RealmDeactivated" -> "REALM_DEACTIVATED"
                [] Unwrap(c).variant = "RateLimitHit" -> "RATE_LIMIT_HIT"
                [] Unwrap(c).variant = "AuthenticationFailed" -> "AUTHENTICATION_FAILED")

PollReturned == pc = "active" /\ result.op = "events"
PollReturnedOk == PollReturned /\ result.tag = "Ok"
PollReturnedErr == PollReturned /\ result.tag = "Err"

\* the outcome delivered is a 2xx response carrying a batch of events
GotBatch ==
    /\ response.type = "http"
    /\ response.status = "2xx"
    /\ response.body.json = "events"

\* the poll call is resuming on a batch that has not been handled yet
BatchPending == pc = "events_await" /\ GotBatch

----------------------------------------------------------------------------
(* C1: the cursor is the id of the positionally last event of the latest     *)
(* non-empty batch the dispatcher received (not the greatest id), and when   *)
(* poll returns Ok with a non-empty batch the cursor is the id of the last   *)
(* event of the returned batch.                                              *)
C1_CursorIsLastEventId ==
    /\ IsSome(queue) => Cursor = Unwrap(observed)
    /\ (PollReturnedOk /\ result.value # <<>>)
          => Cursor = result.value[Len(result.value)].id

\* a batch was returned whose last id is not its greatest id
C1_Witness ==
    /\ PollReturnedOk
    /\ Len(result.value) = 2
    /\ result.value[2].id < result.value[1].id
    /\ Cursor = result.value[2].id

(* C2: a batch whose last event is a heartbeat is never the result of poll:  *)
(* every Ok result is empty or ends with a non-heartbeat event, and handling *)
(* a heartbeat-terminated batch issues another GET within the same call.     *)
C2_HeartbeatSuppressed ==
    /\ [](PollReturnedOk => ~HeartbeatTerminated(result.value))
    /\ [][(BatchPending /\ HeartbeatTerminated(response.body.events))
             => /\ pc' = "events_await"
                /\ response' = NoResponse
                /\ request'.method = "GET"
                /\ nreq' = nreq + 1]_vars

\* a follow-up GET is awaited after a suppressed batch that held content
C2_Witness ==
    /\ pc = "events_await"
    /\ nreq = 2
    /\ seen # {}
    /\ delivered = {}

(* C3: a non-empty batch whose last event is not a heartbeat is returned to  *)
(* the caller exactly as received: same events, same order, heartbeats at    *)
(* non-final positions included.                                             *)
C3_BatchReturnedWhole ==
    (PollReturned /\ GotBatch /\ response.body.events # <<>>
        /\ ~HeartbeatTerminated(response.body.events))
      => /\ result.tag = "Ok"
         /\ result.value = response.body.events

\* a returned batch that holds a heartbeat before its last event
C3_Witness ==
    /\ PollReturnedOk
    /\ Len(result.value) = 2
    /\ result.value[1].kind = "heartbeat"
    /\ result.value[2].kind = "reaction"
    /\ result.value = response.body.events

(* C4: the cursor never decreases, whatever batches the server returns.      *)
C4_CursorMonotonic ==
    [][(IsSome(queue) /\ IsSome(queue'))
          => Unwrap(queue').last_event_id >= Cursor]_vars

\* the batch being handled ends with an id below the cursor
RegressingBatch ==
    /\ BatchPending
    /\ response.body.events # <<>>
    /\ response.body.events[Len(response.body.events)].id < Cursor

(* C4, amended: the cursor never decreases in a step, except when poll       *)
(* handles a non-empty batch whose last event has an id lower than the       *)
(* cursor; then the cursor moves back to that id.                            *)
C4_CursorMonotonicUnlessRegressingBatch ==
    [][(IsSome(queue) /\ IsSome(queue'))
          => \/ Unwrap(queue').last_event_id >= Cursor
             \/ /\ RegressingBatch
                /\ Unwrap(queue').last_event_id
                      = response.body.events[Len(response.body.events)].id]_vars

\* a poll has returned a batch that moved the cursor past the one its GET sent,
\* though the batch began with a lower id
C4_Witness ==
    /\ PollReturnedOk
    /\ Len(result.value) = 2
    /\ result.value[1].id < ParamsOf(request).last_event_id
    /\ Cursor > ParamsOf(request).last_event_id

(* C5: whenever the cursor is at or past the id of a non-heartbeat event     *)
(* received in a successful response, that event has been returned to the    *)
(* caller by some poll call.                                                 *)
C5_NoEventLoss ==
    (pc = "active" /\ IsSome(queue))
      => \A id \in seen : id <= Cursor => id \in delivered

(* C6: when poll returns an error the cursor is not rolled back: it is the   *)
(* last id of the latest non-empty batch received (or the value from         *)
(* registration), and the error returned is the error of the failing GET.    *)
C6_ErrorKeepsCursor ==
    PollReturnedErr
      => /\ Cursor = Unwrap(observed)
         /\ response.type = "failure"
               => \/ result.error.kind = "Http" /\ result.error.http = response.error
                  \/ /\ result.error.kind = "Build"
                     /\ result.error.source = Some(response.error)
         /\ response.type = "http"
               => \/ /\ response.status = "4xx"
                     /\ result.error.kind = "Zulip"
                     /\ result.error.zulip.message = response.body.message
                     /\ CodeTag(result.error.zulip.code) = response.body.code
                  \/ /\ response.status = "5xx"
                     /\ result.error.kind = "Http"
                     /\ result.error.http.status = Some("5xx")

\* the first poll failed on its second GET, after a heartbeat-terminated batch
\* had moved the cursor away from the value of registration
C6_Witness ==
    /\ PollReturnedErr
    /\ gets = 2
    /\ nreq = 2
    /\ Cursor # Unwrap(registered).last_event_id
    /\ Cursor = Unwrap(observed)

----------------------------------------------------------------------------
(* First-seen order, stated without reference to how the builder works *)

FirstIndex(s, x) ==
    CHOOSE i \in 1..Len(s) : s[i] = x /\ \A j \in 1..(i - 1) : s[j] # x

\* r holds each distinct element of s exactly once, in order of first occurrence
IsFirstSeenOrder(r, s) ==
    /\ Range(r) = Range(s)
    /\ \A i, j \in 1..Len(r) : i # j => r[i] # r[j]
    /\ \A i, j \in 1..Len(r) : i < j => FirstIndex(s, r[i]) < FirstIndex(s, r[j])

\* the Option<Vec<_>> the builder must hold after the calls `s`
AccumulatedAs(field, s) ==
    IF s = <<>> THEN field = None
    ELSE IsSome(field) /\ IsFirstSeenOrder(Unwrap(field), s)

(* C7: after any sequence of for_event calls, event_types holds each         *)
(* distinct name exactly once, in order of first occurrence; a name that is  *)
(* already present leaves the list unchanged.                                *)
C7_EventTypesFirstSeen ==
    IsSome(builder) => AccumulatedAs(Unwrap(builder).event_types, evtCalls)

\* for_event was called with a name, another name, and the first name again
C7_Witness ==
    /\ IsSome(builder)
    /\ Len(evtCalls) = 3
    /\ evtCalls[1] = evtCalls[3]
    /\ evtCalls[1] # evtCalls[2]
    /\ Unwrap(builder).event_types = Some(<<evtCalls[1], evtCalls[2]>>)

(* C8: after any sequence of narrow calls, narrow holds each distinct        *)
(* (condition, value) pair exactly once, in order of first occurrence; pairs *)
(* that share only the condition or only the value are both kept.            *)
C8_NarrowFirstSeen ==
    IsSome(builder) => AccumulatedAs(Unwrap(builder).narrow, narrowCalls)

\* a pair was given twice, then a pair with the same condition and another value
C8_Witness ==
    /\ IsSome(builder)
    /\ Len(narrowCalls) = 3
    /\ narrowCalls[1] = narrowCalls[2]
    /\ narrowCalls[3][1] = narrowCalls[1][1]
    /\ narrowCalls[3][2] # narrowCalls[1][2]
    /\ Unwrap(builder).narrow = Some(<<narrowCalls[1], narrowCalls[3]>>)

(* C9: register issues exactly one POST to the registration endpoint with    *)
(* the accumulated configuration; on success the Queue has the queue_id and  *)
(* last_event_id of the response; on failure register returns that error,    *)
(* no Queue exists and nothing is sent again.                                *)
C9_RegisterOnce ==
    /\ (pc = "register_await" \/ result.op = "register")
          => /\ nreq = 1
             /\ request.method = "POST"
             /\ request.url[2] = REGISTER_EVENT_QUEUE
    /\ pc = "register_await"
          => /\ IsSome(request.form)
             /\ Unwrap(request.form) = Unwrap(builder)
             /\ AccumulatedAs(Unwrap(request.form).event_types, evtCalls)
             /\ AccumulatedAs(Unwrap(request.form).narrow, narrowCalls)
    /\ (result.op = "register" /\ result.tag = "Ok")
          => /\ pc = "active"
             /\ queue = Some([queue_id |-> response.body.queue_id,
                              last_event_id |-> response.body.last_event_id])
    /\ (result.op = "register" /\ result.tag = "Err")
          => /\ pc = "failed"
             /\ queue = None
             /\ builder = None
             /\ response.type = "failure"
                   => \/ /\ result.error.kind = "Http"
                         /\ result.error.http = response.error
                      \/ /\ result.error.kind = "Build"
                         /\ result.error.source = Some(response.error)
             /\ response.type = "http"
                   => \/ /\ response.status = "4xx"
                         /\ result.error.kind = "Zulip"
                         /\ result.error.zulip.message = response.body.message
                         /\ CodeTag(result.error.zulip.code) = response.body.code
                      \/ /\ response.status = "5xx"
                         /\ result.error.kind = "Http"
                         /\ result.error.http.status = Some("5xx")

\* a registration with an event type configured succeeded with a cursor that is
\* not the one of a fresh queue
C9_Witness ==
    /\ result.op = "register"
    /\ result.tag = "Ok"
    /\ IsSome(Unwrap(request.form).event_types)
    /\ response.body.last_event_id # -1
    /\ Cursor = response.body.last_event_id

(* C10: every GET of poll carries the queue_id of the registration response  *)
(* and the cursor current when it is issued: the first GET after             *)
(* registration carries the registration's last_event_id, a follow-up GET    *)
(* the id of the last event of the suppressed batch.                         *)
C10_GetCarriesCursor ==
    pc = "events_await"
      => /\ request.method = "GET"
         /\ request.url[2] = EVENTS_QUEUE
         /\ request.query = Some([queue_id |-> Unwrap(registered).queue_id,
                                  last_event_id |-> Cursor])
         /\ gets = 1 => Cursor = Unwrap(registered).last_event_id
         /\ nreq > 1 => Cursor = Unwrap(observed)

\* a follow-up GET carries a cursor that is not the one of registration
C10_Witness ==
    /\ pc = "events_await"
    /\ nreq = 2
    /\ IsSome(request.query)
    /\ Unwrap(request.query).last_event_id # Unwrap(registered).last_event_id
    /\ Unwrap(request.query).last_event_id = Unwrap(observed)

----------------------------------------------------------------------------
(* C11: unregister issues exactly one DELETE to the events endpoint whose    *)
(* only parameter is the queue_id (no cursor); it returns Ok on a success    *)
(* response and otherwise the error of that request, and sends nothing       *)
(* again. (The outcomes on which send panics are the matter of C14 and C24.) *)
C11_UnregisterOnce ==
    /\ (pc = "unregister_await" \/ result.op = "unregister")
          => /\ nreq = 1
             /\ request.method = "DELETE"
             /\ request.url[2] = EVENTS_QUEUE
             /\ request.query = None
             /\ request.form = Some([queue_id |-> Unwrap(registered).queue_id])
    /\ result.op = "unregister"
          => /\ pc = "dropped"
             /\ result.tag = "Ok"
                   <=> (response.type = "http" /\ response.status = "2xx")
             /\ (result.tag = "Err" /\ response.type = "failure")
                   => \/ /\ result.error.kind = "Http"
                         /\ result.error.http = response.error
                      \/ /\ result.error.kind = "Build"
                         /\ result.error.source = Some(response.error)
             /\ (result.tag = "Err" /\ response.type = "http")
                   => \/ /\ response.status = "4xx"
                         /\ result.error.kind = "Zulip"
                         /\ result.error.zulip.message = response.body.message
                      \/ /\ response.status = "5xx"
                         /\ result.error.kind = "Http"
                         /\ result.error.http.status = Some("5xx")

\* an unregister of a Queue whose cursor had moved failed, after one DELETE
C11_Witness ==
    /\ result.op = "unregister"
    /\ result.tag = "Err"
    /\ nreq = 1
    /\ Unwrap(observed) # Unwrap(registered).last_event_id
    /\ request.form = Some([queue_id |-> Unwrap(registered).queue_id])

----------------------------------------------------------------------------
(* C14: an operation ends in a panic only on a response with a 1xx or 3xx    *)
(* status; a 2xx or 4xx response whose body cannot be decoded gives an       *)
(* error value.                                                              *)
C14_PanicOnlyOnInformationalOrRedirect ==
    pc = "panicked"
       => /\ response.type = "http"
          /\ response.status \in {"1xx", "3xx"}

----------------------------------------------------------------------------
(* C16: after an unregister call that returned an error the Queue is still   *)
(* Active, and the caller can poll or unregister it again.                   *)
C16_FailedUnregisterKeepsQueue ==
    (result.op = "unregister" /\ result.tag = "Err")
       => /\ IsSome(queue)
          /\ pc = "active"

----------------------------------------------------------------------------
(* Shorthands for the claims about init *)

InitReturned == result.op = "init"
InitOk == InitReturned /\ result.tag = "Ok"
InitErr == InitReturned /\ result.tag = "Err"

Parsable(a) == IsSome(a.scheme) /\ IsSome(a.host)

Answered(status) == response.type = "http" /\ response.status = status

\* an error body whose code tag is known and has the field its variant needs
CompleteCode(body) ==
    /\ body.code \in {Some(t) : t \in KnownCodes}
    /\ body.code = Some("REQUEST_VARIABLE_MISSING") => IsSome(body.var_name)
    /\ body.code = Some("RATE_LIMIT_HIT") => IsSome(body.retry_after)

----------------------------------------------------------------------------
(* C12: the error kind follows from where the request failed: Build when the *)
(* address does not parse or the request cannot be constructed, Http on a    *)
(* send-time failure and on a 5xx response whatever its body, Zulip built    *)
(* from the body on a 4xx response, and no error on a 2xx response.          *)
C12_ErrorKindByOrigin ==
    /\ InitOk => (nreq = 0 \/ Answered("2xx"))
    /\ (InitReturned /\ Answered("2xx")) => result.tag = "Ok"
    /\ InitErr =>
          /\ result.error.kind = "Build"
                <=> \/ ~Parsable(Unwrap(address))
                    \/ (response.type = "failure" /\ response.error.is_builder)
          /\ result.error.kind = "Http"
                <=> \/ (response.type = "failure" /\ ~response.error.is_builder)
                    \/ Answered("5xx")
          /\ result.error.kind = "Zulip" <=> Answered("4xx")
          /\ (result.error.kind = "Build" /\ Parsable(Unwrap(address)))
                => result.error.source = Some(response.error)
          /\ (result.error.kind = "Http" /\ response.type = "failure")
                => result.error.http = response.error
          /\ Answered("5xx") => result.error.http.status = Some("5xx")
          /\ Answered("4xx") => result.error.zulip.message = response.body.message

\* a 5xx response that carries a well-formed error body became an Http error
C12_Witness ==
    /\ InitErr
    /\ Answered("5xx")
    /\ response.body.json = "error"
    /\ result.error.kind = "Http"

----------------------------------------------------------------------------
(* C13 as stated: a 4xx body with a message always gives an application      *)
(* error; each of the six known code tags gives its variant, and an absent   *)
(* or unknown tag gives code = None with the message populated.              *)
C13_KnownTagGivesVariant ==
    /\ (pc = "panicked" /\ Answered("4xx")) => response.body.json # "error"
    /\ (InitErr /\ Answered("4xx"))
          => /\ result.error.zulip.message = response.body.message
             /\ IF response.body.code \in {Some(t) : t \in KnownCodes}
                THEN CodeTag(code(result.error.zulip)) = response.body.code
                ELSE code(result.error.zulip) = None

(* C13 amended: a known code tag gives its variant when the body also has    *)
(* the field the variant requires (var_name, retry_after), and the variant   *)
(* carries that field; an absent tag, an unknown tag, and a known tag        *)
(* without its required field give code = None; the message is populated     *)
(* and parsing does not fail in any of these cases.                          *)
C13_CompleteKnownTagGivesVariant ==
    /\ (pc = "panicked" /\ Answered("4xx")) => response.body.json # "error"
    /\ (InitErr /\ Answered("4xx"))
          => /\ result.error.zulip.message = response.body.message
             /\ IF CompleteCode(response.body)
                THEN /\ CodeTag(code(result.error.zulip)) = response.body.code
                     /\ response.body.code = Some("REQUEST_VARIABLE_MISSING")
                           => Unwrap(code(result.error.zulip)).var_name
                                 = Unwrap(response.body.var_name)
                     /\ response.body.code = Some("RATE_LIMIT_HIT")
                           => Unwrap(code(result.error.zulip)).retry_after
                                 = Unwrap(response.body.retry_after)
                ELSE code(result.error.zulip) = None

\* a RATE_LIMIT_HIT body with retry_after was decoded into RateLimitHit
C13_Witness ==
    /\ InitErr
    /\ Answered("4xx")
    /\ response.body.code = Some("RATE_LIMIT_HIT")
    /\ IsSome(response.body.retry_after)
    /\ code(result.error.zulip) = Some([variant |-> "RateLimitHit", retry_after |-> 1])

----------------------------------------------------------------------------
(* C15: on every application error each code predicate answers true exactly  *)
(* when code is its own variant, so at most one answers true and none does   *)
(* when code is None; asking the predicates changes nothing.                 *)
PredicateVariant ==
    [is_bad_request |-> "BadRequest",
     is_rate_limit_hit |-> "RateLimitHit",
     is_realm_deactivated |-> "RealmDeactivated",
     is_user_deactivated |-> "UserDeactivated",
     is_variable_missing |-> "RequestVariableMissing",
     is_auth_failed |-> "AuthenticationFailed"]

C15_PredicatesMatchCode ==
    /\ [](IsSome(answers)
            => LET a == Unwrap(answers)
                   c == result.error.zulip.code
               IN  /\ DOMAIN a = DOMAIN PredicateVariant
                   /\ \A p \in DOMAIN a :
                         a[p] <=> (c # None /\ Unwrap(c).variant = PredicateVariant[p])
                   /\ Cardinality({p \in DOMAIN a : a[p]}) <= 1
                   /\ c = None => \A p \in DOMAIN a : ~a[p])
    /\ [][answers' # answers
            => UNCHANGED <<client, cb, inner, pc, request, response, result, nreq>>]_vars

\* the predicates were asked of a RateLimitHit error: one answered true
C15_Witness ==
    /\ IsSome(answers)
    /\ Unwrap(answers).is_rate_limit_hit
    /\ ~Unwrap(answers).is_bad_request
    /\ Unwrap(result.error.zulip.code).variant = "RateLimitHit"

----------------------------------------------------------------------------
(* C18: init replaces the path of the address by /api/v1/ and keeps scheme,  *)
(* host and port, so the base address is the same for addresses that differ  *)
(* only in their path; an address that does not parse makes init return a    *)
(* Build error.                                                              *)
CanonicalBase(a) ==
    [scheme |-> Unwrap(a.scheme), host |-> Unwrap(a.host), port |-> a.port,
     path |-> <<"api", "v1", "">>]

C18_BaseAddressNormalized ==
    /\ InitOk => /\ Parsable(Unwrap(address))
                 /\ client.base_uri = CanonicalBase(Unwrap(address))
    /\ pc = "init_await" => request.url[1] = CanonicalBase(Unwrap(address))
    /\ (pc # "configuring" /\ ~Parsable(Unwrap(address)))
          => /\ InitErr
             /\ result.error.kind = "Build"
             /\ nreq = 0
             /\ client = NoClient

\* an address with a port and the path /diff/path was initialised
C18_Witness ==
    /\ InitOk
    /\ Unwrap(address).path = <<"diff", "path">>
    /\ Unwrap(address).port = Some(8080)
    /\ client.base_uri.path = <<"api", "v1", "">>
    /\ client.base_uri.port = Some(8080)

----------------------------------------------------------------------------
(* C19: init sends at most one handshake request, chosen by what is          *)
(* configured when no API key is: user and password give one POST to         *)
(* fetch_api_key carrying both, a user alone gives one POST to               *)
(* dev_fetch_api_key carrying the username only, nothing gives no request    *)
(* and no credentials; after a handshake the credentials are the email and   *)
(* api_key of the response; a failed handshake returns its error and no      *)
(* Client.                                                                   *)
C19_OneHandshake ==
    /\ [](/\ nreq <= 1
          /\ (InitOk /\ nreq = 1)
                => /\ Answered("2xx")
                   /\ client.credentials
                         = Some([username |-> response.body.email,
                                 password |-> response.body.api_key])
          /\ InitErr
                => /\ client = NoClient
                   /\ nreq = 1 => \/ /\ response.type = "failure"
                                     /\ result.error.kind \in {"Http", "Build"}
                                  \/ /\ Answered("4xx")
                                     /\ result.error.zulip.message = response.body.message
                                  \/ /\ Answered("5xx")
                                     /\ result.error.http.status = Some("5xx"))
    /\ [][(pc = "configuring" /\ pc' # "configuring"
              /\ Unwrap(cb).uri.tag = "Ok" /\ ~IsSome(Unwrap(cb).api_key))
            => LET b == Unwrap(cb)
               IN  IF IsSome(b.password)
                   THEN /\ nreq' = 1
                        /\ request'.method = "POST"
                        /\ request'.url[2] = FETCH_API_KEY
                        /\ request'.form = Some([username |-> Unwrap(b.user),
                                                 password |-> b.password])
                        /\ request'.query = None
                        /\ request'.basic_auth = None
                   ELSE IF IsSome(b.user)
                   THEN /\ nreq' = 1
                        /\ request'.method = "POST"
                        /\ request'.url[2] = FETCH_DEV_API_KEY
                        /\ request'.form = Some([username |-> Unwrap(b.user),
                                                 password |-> None])
                        /\ request'.query = None
                        /\ request'.basic_auth = None
                   ELSE /\ nreq' = 0
                        /\ request' = NoRequest
                        /\ pc' = "ready"
                        /\ client'.credentials = None]_vars

\* a password handshake answered with another email than the configured user
C19_Witness ==
    /\ InitOk
    /\ nreq = 1
    /\ request.url[2] = FETCH_API_KEY
    /\ Unwrap(request.form).username # response.body.email
    /\ client.credentials = Some([username |-> response.body.email,
                                  password |-> response.body.api_key])
    /\ IsSome(response.body.api_key)

----------------------------------------------------------------------------
(* C20: once a GET of a poll call is answered with an empty batch, with a    *)
(* batch whose last event is not a heartbeat, or with a failure (send        *)
(* failure, 5xx, 4xx error body), the call eventually returns, with that     *)
(* batch or that error; and the call returns on no other answer.             *)
FailureAnswer ==
    \/ response.type = "failure"
    \/ Answered("5xx")
    \/ (Answered("4xx") /\ response.body.json = "error")

TerminalAnswer ==
    /\ pc = "events_await"
    /\ \/ (GotBatch /\ ~HeartbeatTerminated(response.body.events))
       \/ FailureAnswer

C20_PollTerminates ==
    /\ TerminalAnswer ~> PollReturned
    /\ [][TerminalAnswer
            => /\ PollReturned'
               /\ IF GotBatch
                  THEN result'.tag = "Ok" /\ result'.value = response.body.events
                  ELSE result'.tag = "Err"]_vars
    /\ [][(pc = "events_await" /\ pc' = "active") => TerminalAnswer]_vars

\* a poll returned a batch on its second GET, after a suppressed batch
C20_Witness ==
    /\ PollReturnedOk
    /\ nreq = 2
    /\ result.value # <<>>

----------------------------------------------------------------------------
(* C17: Queues made from one Client do not interfere however their requests  *)
(* interleave: the queue_id and cursor of each are those of the responses to *)
(* its own requests, the batch a poll returns is the one its own GET         *)
(* received, a step of one Queue leaves the state of the other as it was,    *)
(* and no step changes the Client's base address or credentials.             *)
C17_QueuesIndependent ==
    /\ [](\A h \in Handles :
            /\ IsSome(qs[h].params)
                  => /\ IsSome(qs[h].regd)
                     /\ Unwrap(qs[h].params).queue_id = Unwrap(qs[h].regd).queue_id
                     /\ Unwrap(qs[h].params).last_event_id = Unwrap(qs[h].obs)
            /\ (qs[h].result.op = "events" /\ qs[h].result.tag = "Ok")
                  => qs[h].result.value = qs[h].response.body.events
            /\ qs[h].request # NoRequest
                  => /\ qs[h].request.url[1] = client.base_uri
                     /\ qs[h].request.basic_auth = client.credentials)
    /\ [][\A h \in Handles :
            qs'[h] # qs[h] => \A k \in Handles \ {h} : qs'[k] = qs[k]]_vars
    /\ [][client' = client]_vars

\* both Queues await a GET at once, with different queue ids and cursors
C17_Witness ==
    /\ qs[1].pc = "events_await"
    /\ qs[2].pc = "events_await"
    /\ qs[1].response # NoResponse
    /\ qs[2].response = NoResponse
    /\ Unwrap(qs[1].params).queue_id # Unwrap(qs[2].params).queue_id
    /\ Unwrap(qs[1].params).last_event_id # Unwrap(qs[2].params).last_event_id

----------------------------------------------------------------------------
(* C21: within one poll call the GETs issued are one more than the           *)
(* heartbeat-terminated batches received in it, however many these are; a    *)
(* GET that fails is not retried: the call returns the error with the        *)
(* failed GET as its last request.                                           *)
C21_GetsPerPoll ==
    /\ (pc = "events_await" \/ PollReturned)
          => /\ nreq = 1 + hbs
             /\ request.method = "GET"
    /\ PollReturnedErr => FailureAnswer

\* a GET failed after one suppressed batch, and the call returned the error
C21_Witness ==
    /\ PollReturnedErr
    /\ hbs = 1
    /\ nreq = 2
    /\ response.type = "failure"

----------------------------------------------------------------------------
(* C22: on an empty batch poll returns Ok with an empty list in its next     *)
(* step, issues no further GET, and leaves last_event_id at the value it     *)
(* had before that GET (the value the GET carried).                          *)
C22_EmptyBatchReturnsAtOnce ==
    /\ []((PollReturned /\ GotBatch /\ response.body.events = <<>>)
            => /\ result.tag = "Ok"
               /\ result.value = <<>>
               /\ Cursor = ParamsOf(request).last_event_id)
    /\ [][(BatchPending /\ response.body.events = <<>>)
            => /\ PollReturnedOk'
               /\ result'.value = <<>>
               /\ nreq' = nreq
               /\ request' = request
               /\ queue' = queue]_vars

\* an empty batch ended a call whose first batch was suppressed
C22_Witness ==
    /\ PollReturnedOk
    /\ result.value = <<>>
    /\ response.body.events = <<>>
    /\ nreq = 2
    /\ Cursor # Unwrap(registered).last_event_id

----------------------------------------------------------------------------
(* C25: where a request carries its parameters depends on the verb alone: a  *)
(* GET has them in the query and has no body, any other verb has them as a   *)
(* form body and has no query; so registration (POST) and unregister         *)
(* (DELETE) send a form, and every GET of a poll sends a query.              *)
C25_PlacementByVerb ==
    /\ request # NoRequest
          => IF request.method = "GET"
             THEN IsSome(request.query) /\ request.form = None
             ELSE IsSome(request.form) /\ request.query = None
    /\ (pc = "register_await" \/ result.op = "register")
          => request.method = "POST" /\ IsSome(request.form)
    /\ (pc = "unregister_await" \/ result.op = "unregister")
          => request.method = "DELETE" /\ IsSome(request.form)
    /\ (pc = "events_await" \/ result.op = "events")
          => request.method = "GET" /\ IsSome(request.query)

\* an unregister awaits its DELETE, sent with a form and no query
C25_Witness ==
    /\ pc = "unregister_await"
    /\ request.method = "DELETE"
    /\ request.form = Some(UnregisterQueueRequestFrom(Unwrap(queue)))
    /\ request.query = None

----------------------------------------------------------------------------
(* C24: an operation that resumes on a response with a 1xx or 3xx status     *)
(* panics: it returns neither Ok nor an error and does not use the body,     *)
(* even a body of the expected shape: no Queue is made of it, and a poll     *)
(* leaves the cursor at the value its GET carried.                           *)
C24_PanicOnInformationalOrRedirect ==
    (response.type = "http" /\ response.status \in {"1xx", "3xx"} /\ ~Awaiting)
       => /\ pc = "panicked"
          /\ result = NoResult
          /\ request.method = "POST" => queue = None
          /\ request.method = "GET"
                => /\ Cursor = ParamsOf(request).last_event_id
                   /\ Cursor = Unwrap(observed)

\* a redirect whose body is a batch ending in another id than the cursor
C24_Witness ==
    /\ pc = "panicked"
    /\ response.status = "3xx"
    /\ response.body.json = "events"
    /\ nreq = 2
    /\ response.body.events[1].id # Cursor

----------------------------------------------------------------------------
(* C23: the queue_id and last_event_id of a Queue are changed by nothing but *)
(* a poll of that Queue that receives a non-empty batch, which changes       *)
(* last_event_id only: the accessors, unregister, a poll that receives an    *)
(* error or an empty batch, and every step of another Queue leave both as    *)
(* they are; queue_id is that of the registration for as long as the Queue   *)
(* exists.                                                                   *)
OwnBatch(h) ==
    /\ qs[h].pc = "events_await"
    /\ qs[h].response.type = "http"
    /\ qs[h].response.status = "2xx"
    /\ qs[h].response.body.events # <<>>

C23_OnlyPollMovesCursor ==
    /\ [](\A h \in Handles :
            /\ IsSome(qs[h].params)
                  => /\ IsSome(qs[h].regd)
                     /\ Unwrap(qs[h].params).queue_id = Unwrap(qs[h].regd).queue_id
            /\ IsSome(qs[h].got)
                  => /\ IsSome(qs[h].params)
                     /\ Unwrap(qs[h].got).id = Unwrap(qs[h].params).queue_id
                     /\ Unwrap(qs[h].got).last_event_id
                           = Unwrap(qs[h].params).last_event_id)
    /\ [][\A h \in Handles :
            (IsSome(qs[h].params) /\ IsSome(qs'[h].params)
                /\ qs'[h].params # qs[h].params)
               => /\ OwnBatch(h)
                  /\ Unwrap(qs'[h].params).queue_id = Unwrap(qs[h].params).queue_id
                  /\ Unwrap(qs'[h].params).last_event_id
                        = qs[h].response.body.events[Len(qs[h].response.body.events)].id]_vars
    /\ [][\A h \in Handles :
            (qs[h].pc \in {"active", "unregister_await"} /\ IsSome(qs'[h].params))
               => qs'[h].params = qs[h].params]_vars

\* the accessors of one Queue answered after its cursor moved, while the
\* other Queue awaits an unregister with another cursor
C23_Witness ==
    /\ IsSome(qs[1].got)
    /\ Unwrap(qs[1].got).last_event_id = 1
    /\ qs[2].pc = "unregister_await"
    /\ qs[2].response # NoResponse
    /\ Unwrap(qs[2].params).last_event_id = 0

\* C27: once with_key has been called, init sends no request and waits for
\* none: with a valid address it ends at once with a Client whose
\* credentials are the user of the latest call of with_key or
\* with_credentials and the key of the latest with_key, whatever password
\* with_credentials was given; with an invalid address it ends at once
\* with the error.
C27_KeyNeedsNoHandshake ==
    (pc # "configuring" /\ IsSome(lastCall) /\ IsSome(Unwrap(lastCall).key)) =>
        /\ nreq = 0
        /\ request = NoRequest
        /\ response = NoResponse
        /\ pc = (IF into_url(Unwrap(address)).tag = "Ok" THEN "ready" ELSE "init_failed")
        /\ pc = "ready" =>
              client.credentials =
                  Some([username |-> Unwrap(lastCall).user,
                        password |-> Some(Unwrap(Unwrap(lastCall).key).key)])

\* with_key(u1, k), then with_credentials(u2, a password), then init: the
\* Client holds u2 with k, and nothing was sent
C27_Witness ==
    /\ pc = "ready"
    /\ nreq = 0
    /\ IsSome(lastCall)
    /\ Unwrap(lastCall).fn = "with_credentials"
    /\ IsSome(Unwrap(lastCall).password)
    /\ IsSome(Unwrap(lastCall).key)
    /\ Unwrap(Unwrap(lastCall).key).user # Unwrap(lastCall).user
    /\ client.credentials =
           Some([username |-> Unwrap(lastCall).user,
                 password |-> Some(Unwrap(Unwrap(lastCall).key).key)])

\* the credentials init set: those of the key branch, or those decoded from
\* the response to the handshake, or none when nothing was configured
InitCredentials ==
    IF nreq = 0
    THEN IF IsSome(lastCall) /\ IsSome(Unwrap(lastCall).key)
         THEN Some([username |-> Unwrap(lastCall).user,
                    password |-> Some(Unwrap(Unwrap(lastCall).key).key)])
         ELSE None
    ELSE Some(send(response, "Credentials").data)

\* C26: the handshake request of init carries no basic authentication;
\* every request of the Queue made from the Client that init returned
\* (register, each GET of a poll, unregister) carries as basic
\* authentication exactly the credentials init set, none when init set
\* none; and the Client, once returned, never changes.
C26_RequestsCarryCredentials ==
    /\ [](pc = "init_await" => request.basic_auth = None)
    /\ [](pc = "ready" => client.credentials = InitCredentials)
    /\ [](\A h \in DOMAIN qs :
             qs[h].request # NoRequest =>
                 qs[h].request.basic_auth = InitCredentials)
    /\ [][pc = "ready" => client' = client]_vars

\* the Queue of a Client whose credentials came from a handshake has polled
\* twice and is unregistering, its DELETE carrying those credentials
C26_Witness ==
    /\ pc = "ready"
    /\ qs # <<>>
    /\ nreq = 1
    /\ IsSome(client.credentials)
    /\ qs[1].gets = 2
    /\ qs[1].pc = "unregister_await"
    /\ qs[1].request.method = "DELETE"
    /\ qs[1].request.basic_auth = client.credentials

====
